---- MODULE Spec2Model ----
(***************************************************************************)
(* Model of build_blacklist.py: the Blacklist constructor replays the      *)
(* changelog (blacklist.txt) against the persisted collection              *)
(* (blacklist/blacklist.json), records the touched entries in two epoch    *)
(* lists, saves the collection and then the embeds are written.            *)
(*                                                                         *)
(* Strings are sequences of one-character strings, so that strip, lower,   *)
(* split and rsplit are computed as Python computes them.                  *)
(*                                                                         *)
(* Python objects: a BlacklistEntry of full_blacklist is identified by its *)
(* index in the list (entries are never removed or moved).  A plain update *)
(* record is the store object itself, i.e. a reference [ref |-> index]; a  *)
(* RenameEntry is a fresh object holding its own field values.             *)
(***************************************************************************)
EXTENDS Integers, Sequences, FiniteSets, TLC

\* Number of changelog lines read in one run.
MaxLines == 4

\* Lengths of current_update and previous_update handed to the embeds when
\* the view builder is checked on its own.
MaxViewRecords == 3
MaxViewPrevious == 1

\* Number of changelog lines read by the constructor in an import run, and
\* number of lines of the import file read.
MaxImportChangelog == 2
MaxImportLines == 2

-----------------------------------------------------------------------------
(* String literals *)

Bob == <<"B", "o", "b">>
BOB == <<"B", "O", "B">>
Robert == <<"R", "o", "b", "e", "r", "t">>
Carol == <<"C", "a", "r", "o", "l">>
Ghost == <<"G", "h", "o", "s", "t">>
Phantom == <<"P", "h", "a", "n", "t", "o", "m">>
Alice == <<"A", "l", "i", "c", "e">>
ALICE == <<"A", "L", "I", "C", "E">>
Scam == <<"S", "c", "a", "m">>
RMT == <<"R", "M", "T">>

SEPARATOR == <<" ", "-", ">", " ">>
PREVIOUS == <<"p", "r", "e", "v", "i", "o", "u", "s">>

Line_BobScam == <<"B", "o", "b", " ", "S", "c", "a", "m">>
Line_PreviousUpdates == <<"#", " ", "P", "r", "e", "v", "i", "o", "u", "s", " ", "u", "p", "d", "a", "t", "e", "s">>
Line_CarolRMT == <<"C", "a", "r", "o", "l", " ", "R", "M", "T">>
Line_BobToRobert == <<"B", "o", "b", " ", "-", ">", " ", "R", "o", "b", "e", "r", "t">>
Line_Blank == <<" ", "\n">>
Line_Comment == <<"#", " ", "S", "c", "a", "m", "m", "e", "r", "s">>
Line_Ghost == <<"G", "h", "o", "s", "t">>
Line_GhostToPhantom == <<"G", "h", "o", "s", "t", " ", "-", ">", " ", "P", "h", "a", "n", "t", "o", "m">>
Line_BOBRMT == <<" ", "B", "O", "B", " ", "R", "M", "T", "\n">>
Line_CarolToBob == <<"C", "a", "r", "o", "l", " ", "-", ">", " ", "B", "o", "b">>
Line_TwoArrows == <<"B", "o", "b", " ", "-", ">", " ", "C", "a", "r", "o", "l", " ", "-", ">", " ", "G", "h", "o", "s", "t">>

\* The lines the changelog file may contain.
InputLines ==
    { Line_BobScam, Line_PreviousUpdates, Line_CarolRMT, Line_BobToRobert,
      Line_Blank, Line_Comment, Line_Ghost, Line_GhostToPhantom,
      Line_BOBRMT, Line_CarolToBob, Line_TwoArrows }

\* The collections blacklist.json may hold when a run starts.  Nothing
\* validates the file, so a collection with a case-insensitive duplicate
\* is among them.
StoredCollections ==
    { << >>,
      << [username |-> Bob, category |-> Scam] >>,
      << [username |-> Carol, category |-> Scam],
         [username |-> Bob, category |-> Scam] >>,
      << [username |-> Bob, category |-> Scam],
         [username |-> BOB, category |-> RMT] >> }

-----------------------------------------------------------------------------
(* Python str operations *)

UPPERCASE == <<"A", "B", "C", "D", "E", "F", "G", "H", "I", "J", "K", "L", "M", "N", "O", "P", "Q", "R", "S", "T", "U", "V", "W", "X", "Y", "Z">>
LOWERCASE == <<"a", "b", "c", "d", "e", "f", "g", "h", "i", "j", "k", "l", "m", "n", "o", "p", "q", "r", "s", "t", "u", "v", "w", "x", "y", "z">>
WHITESPACE == {" ", "\t", "\n", "\r"}

lower_char(c) ==
    IF \E n \in 1..26 : UPPERCASE[n] = c
    THEN LOWERCASE[CHOOSE n \in 1..26 : UPPERCASE[n] = c]
    ELSE c

\* str.lower()
lower(s) == [n \in 1..Len(s) |-> lower_char(s[n])]

RECURSIVE lstrip(_)
lstrip(s) ==
    IF s # << >> /\ Head(s) \in WHITESPACE THEN lstrip(Tail(s)) ELSE s

RECURSIVE rstrip(_)
rstrip(s) ==
    IF s # << >> /\ s[Len(s)] \in WHITESPACE
    THEN rstrip(SubSeq(s, 1, Len(s) - 1))
    ELSE s

\* str.strip()
strip(s) == rstrip(lstrip(s))

\* str.find(sub) counted from 1; 0 when sub does not occur.
find(s, sub) ==
    LET hits == { n \in 1..(Len(s) - Len(sub) + 1) :
                    SubSeq(s, n, n + Len(sub) - 1) = sub }
    IN  IF hits = {} THEN 0
        ELSE CHOOSE n \in hits : \A m \in hits : n <= m

\* sub in s
contains(s, sub) == find(s, sub) # 0

\* str.split(sep)
RECURSIVE split(_, _)
split(s, sep) ==
    LET n == find(s, sep)
    IN  IF n = 0 THEN << s >>
        ELSE << SubSeq(s, 1, n - 1) >>
             \o split(SubSeq(s, n + Len(sep), Len(s)), sep)

\* str.rsplit(sep, 1) for a one-character sep
rsplit(s, sep) ==
    LET hits == { n \in 1..Len(s) : s[n] = sep }
    IN  IF hits = {} THEN << s >>
        ELSE LET n == CHOOSE k \in hits : \A m \in hits : m <= k
             IN  << SubSeq(s, 1, n - 1), SubSeq(s, n + 1, Len(s)) >>

-----------------------------------------------------------------------------
(* Entity store: operations of class Blacklist on full_blacklist *)

\* BlacklistEntry.to_json
to_json(entry) == [username |-> entry.username, category |-> entry.category]

\* get_entry comparing usernames without lower().
get_entry_exact(store, username) ==
    LET hits == { n \in 1..Len(store) : store[n].username = username }
    IN  IF hits = {} THEN 0
        ELSE CHOOSE n \in hits : \A m \in hits : n <= m

\* Blacklist.get_entry: index of the first entry whose lowercased username
\* equals the lowercased argument; 0 stands for None.
get_entry(store, username) ==
    LET hits == { n \in 1..Len(store) :
                    lower(store[n].username) = lower(username) }
    IN  IF hits = {} THEN 0
        ELSE CHOOSE n \in hits : \A m \in hits : n <= m

\* get_or_append that also overwrites the username of the entry it found.
get_or_append_renaming(store, username, category) ==
    LET entry == get_entry(store, username)
    IN  IF entry # 0
        THEN [store |-> [store EXCEPT ![entry] = [username |-> username,
                                                   category |-> category]],
              entry |-> entry]
        ELSE [store |-> Append(store, [username |-> username,
                                       category |-> category]),
              entry |-> Len(store) + 1]

\* get_or_append that re-inserts the entry it found at the end of the list.
get_or_append_moving(store, username, category) ==
    LET entry == get_entry(store, username)
    IN  IF entry # 0
        THEN [store |-> Append(SubSeq(store, 1, entry - 1)
                               \o SubSeq(store, entry + 1, Len(store)),
                               [username |-> store[entry].username,
                                category |-> category]),
              entry |-> Len(store)]
        ELSE [store |-> Append(store, [username |-> username,
                                       category |-> category]),
              entry |-> Len(store) + 1]

\* Blacklist.get_or_append: the store afterwards and the entry returned.
get_or_append(store, username, category) ==
    LET entry == get_entry(store, username)
    IN  IF entry # 0
        THEN [store |-> [store EXCEPT ![entry].category = category],
              entry |-> entry]
        ELSE [store |-> Append(store, [username |-> username,
                                       category |-> category]),
              entry |-> Len(store) + 1]

\* update_username without its first branch (new already in the blacklist).
update_username_old_only(store, old, new) ==
    IF get_entry(store, old) # 0
    THEN [raised |-> FALSE,
          store |-> [store EXCEPT ![get_entry(store, old)].username = new],
          entry |-> get_entry(store, old)]
    ELSE [raised |-> TRUE, store |-> store, entry |-> 0]

\* update_username with its first two branches in the other order.
update_username_old_first(store, old, new) ==
    IF get_entry(store, old) # 0
    THEN [raised |-> FALSE,
          store |-> [store EXCEPT ![get_entry(store, old)].username = new],
          entry |-> get_entry(store, old)]
    ELSE IF get_entry(store, new) # 0
    THEN [raised |-> FALSE, store |-> store, entry |-> get_entry(store, new)]
    ELSE [raised |-> TRUE, store |-> store, entry |-> 0]

\* Blacklist.update_username: raised is TRUE when the RuntimeError of the
\* last branch is raised (the store is then untouched and no entry returned).
update_username(store, old, new) ==
    IF get_entry(store, new) # 0
    THEN [raised |-> FALSE, store |-> store, entry |-> get_entry(store, new)]
    ELSE IF get_entry(store, old) # 0
    THEN [raised |-> FALSE,
          store |-> [store EXCEPT ![get_entry(store, old)].username = new],
          entry |-> get_entry(store, old)]
    ELSE [raised |-> TRUE, store |-> store, entry |-> 0]

\* add_to_updates inserting at the front of the list.
add_to_updates_front(current, previous, entry, tgt) ==
    IF tgt = "previous"
    THEN [current_update |-> current,
          previous_update |-> << entry >> \o previous]
    ELSE [current_update |-> << entry >> \o current,
          previous_update |-> previous]

\* Blacklist.add_to_updates: both epoch lists after the call.
add_to_updates(current, previous, entry, tgt) ==
    IF tgt = "previous"
    THEN [current_update |-> current,
          previous_update |-> Append(previous, entry)]
    ELSE [current_update |-> Append(current, entry),
          previous_update |-> previous]

\* save_blacklist writing all entries but the last.
save_blacklist_short(store) == [n \in 1..(Len(store) - 1) |-> to_json(store[n])]

\* Blacklist.save_blacklist: the records written to blacklist.json.
save_blacklist(store) == [n \in 1..Len(store) |-> to_json(store[n])]

\* The comment branch looking for "previous" without lower().
comment_target_exact(line, tgt) ==
    IF contains(line, PREVIOUS) THEN "previous" ELSE tgt

\* The comment branch of the line loop: the epoch marker after a "#" line.
comment_target(line, tgt) ==
    IF contains(lower(line), PREVIOUS) THEN "previous" ELSE tgt

\* The effect of one iteration of the line loop on the store: raised is TRUE
\* when the iteration ends in an exception.
apply_line(store, raw) ==
    LET line == strip(raw)
    IN  IF line = << >> \/ line[1] = "#"
        THEN [raised |-> FALSE, store |-> store]
        ELSE IF contains(line, SEPARATOR)
        THEN IF Len(split(line, SEPARATOR)) # 2
             THEN [raised |-> TRUE, store |-> store]
             ELSE LET res == update_username(store,
                                 split(line, SEPARATOR)[1],
                                 split(line, SEPARATOR)[2])
                  IN  [raised |-> res.raised, store |-> res.store]
        ELSE LET parts == rsplit(line, " ")
             IN  IF Len(parts) # 2 \/ parts[1] = << >> \/ parts[2] = << >>
                 THEN [raised |-> TRUE, store |-> store]
                 ELSE [raised |-> FALSE,
                       store |-> get_or_append(store, parts[1], parts[2]).store]

\* The line loop of a whole run of the constructor on a loaded collection.
RECURSIVE replay(_, _)
replay(store, lines) ==
    IF lines = << >> THEN [raised |-> FALSE, store |-> store]
    ELSE LET res == apply_line(store, Head(lines))
         IN  IF res.raised THEN res ELSE replay(res.store, Tail(lines))

\* An update record that is the store object itself (what get_or_append
\* returns and the loop hands to add_to_updates).
StoreObject(entry) == [cls |-> "BlacklistEntry", ref |-> entry]

\* RenameEntry(username=..., category=..., old_username=...): a new object.
RenameEntry(username, category, old_username) ==
    [cls |-> "RenameEntry", username |-> username, category |-> category,
     old_username |-> old_username]

\* Field reads of an update record, through the reference for a store object.
username_of(store, rec) ==
    IF rec.cls = "BlacklistEntry" THEN store[rec.ref].username ELSE rec.username

category_of(store, rec) ==
    IF rec.cls = "BlacklistEntry" THEN store[rec.ref].category ELSE rec.category

EMBED_FILES ==
    << "new.txt", "scam.txt", "rmta.txt", "rmtb.txt", "exchange.txt",
       "other.txt", "unknown.txt" >>

-----------------------------------------------------------------------------
(* View builder: the embeds *)

GW2Exchange == << "G", "W", "2", "E", "x", "c", "h", "a", "n", "g", "e" >>
Other == << "O", "t", "h", "e", "r" >>
Unknown == << "U", "n", "k", "n", "o", "w", "n" >>

\* The grave accent (code point 96), which cannot be written in a string here.
BACKTICK == "grave"

\* The characters with code points 32..126, in order.
ASCII ==
    << " ", "!", "\"", "#", "$", "%", "&", "'", "(", ")", "*", "+", ",",
       "-", ".", "/", "0", "1", "2", "3", "4", "5", "6", "7", "8", "9",
       ":", ";", "<", "=", ">", "?", "@", "A", "B", "C", "D", "E", "F",
       "G", "H", "I", "J", "K", "L", "M", "N", "O", "P", "Q", "R", "S",
       "T", "U", "V", "W", "X", "Y", "Z", "[", "\\", "]", "^", "_", BACKTICK,
       "a", "b", "c", "d", "e", "f", "g", "h", "i", "j", "k", "l", "m",
       "n", "o", "p", "q", "r", "s", "t", "u", "v", "w", "x", "y", "z",
       "{", "|", "}", "~" >>

\* ord() and chr() on the characters used.
\* The code point of each printable ASCII character.
CODE_POINT ==
    [c \in { ASCII[n] : n \in 1..Len(ASCII) } |->
        31 + CHOOSE n \in 1..Len(ASCII) : ASCII[n] = c]

ord(c) ==
    IF c = "\t" THEN 9
    ELSE IF c = "\n" THEN 10
    ELSE IF c = "\r" THEN 13
    ELSE CODE_POINT[c]

chr(n) == ASCII[n - 31]

upper_char(c) ==
    IF \E n \in 1..26 : LOWERCASE[n] = c
    THEN UPPERCASE[CHOOSE n \in 1..26 : LOWERCASE[n] = c]
    ELSE c

\* str.upper()
upper(s) == [n \in 1..Len(s) |-> upper_char(s[n])]

\* The code points of a str, the form in which sort keys are compared.
codes(s) == [n \in 1..Len(s) |-> ord(s[n])]

\* a < b on sort keys: a str key is compared by code points, an int key is
\* the one-element sequence of its value.
RECURSIVE key_lt(_, _)
key_lt(a, b) ==
    IF b = << >> THEN FALSE
    ELSE IF a = << >> THEN TRUE
    ELSE IF Head(a) = Head(b) THEN key_lt(Tail(a), Tail(b))
    ELSE Head(a) < Head(b)

\* sorted(list, key=...): keys[n] is the key of list[n].  The sort is
\* stable: an element is placed after the elements whose key is not larger.
sorted(list, keys) ==
    LET RECURSIVE insert(_, _)
        insert(done, x) ==
            IF done = << >> THEN << x >>
            ELSE IF key_lt(keys[x], keys[done[Len(done)]])
                 THEN Append(insert(SubSeq(done, 1, Len(done) - 1), x),
                             done[Len(done)])
                 ELSE Append(done, x)
        RECURSIVE sort(_)
        sort(n) ==
            IF n = 0 THEN << >> ELSE insert(sort(n - 1), n)
        order == sort(Len(list))
    IN  [n \in 1..Len(list) |-> list[order[n]]]

\* sep.join(list)
RECURSIVE join(_, _)
join(sep, list) ==
    IF list = << >> THEN << >>
    ELSE IF Len(list) = 1 THEN list[1]
    ELSE list[1] \o sep \o join(sep, Tail(list))

\* range_char leaving out the stop character.
range_char_exclusive(start, stop) ==
    [n \in 1..(ord(stop) - ord(start)) |-> chr(ord(start) + n - 1)]

\* range_char(start, stop)
range_char(start, stop) ==
    [n \in 1..(ord(stop) - ord(start) + 1) |-> chr(ord(start) + n - 1)]

\* x in list
in_list(x, list) == \E n \in 1..Len(list) : list[n] = x

CATEGORY_SORTING ==
    [c \in {Scam, RMT, GW2Exchange, Other, Unknown} |->
        IF c = Scam THEN 100
        ELSE IF c = RMT THEN 200
        ELSE IF c = GW2Exchange THEN 300
        ELSE IF c = Other THEN 400
        ELSE 500]

\* sortkey without the override of RenameEntry.
sortkey_base_only(store, rec) ==
    IF category_of(store, rec) \in DOMAIN CATEGORY_SORTING
    THEN CATEGORY_SORTING[category_of(store, rec)]
    ELSE 500

\* BlacklistEntry.sortkey and its override RenameEntry.sortkey
sortkey(store, rec) ==
    LET base == IF category_of(store, rec) \in DOMAIN CATEGORY_SORTING
                THEN CATEGORY_SORTING[category_of(store, rec)]
                ELSE 500
    IN  IF rec.cls = "RenameEntry" THEN base + 10 ELSE base

RENAMED_FROM ==
    << " ", "-", " ", "R", "e", "n", "a", "m", "e", "d", " ", "f", "r",
       "o", "m", " " >>

\* BlacklistEntry.to_new_str and its override RenameEntry.to_new_str
to_new_str(store, rec) ==
    IF rec.cls = "RenameEntry"
    THEN << "[", " " >> \o rec.username \o << "\t" >> \o rec.category
         \o RENAMED_FROM \o rec.old_username \o << " ", "]" >>
    ELSE username_of(store, rec) \o << "\t" >> \o category_of(store, rec)

\* NewEmbed.get_names
get_names(store, use_list) ==
    LET ordered == sorted(use_list,
                     [n \in 1..Len(use_list) |->
                         << sortkey(store, use_list[n]) >>])
    IN  join(<< >>, [n \in 1..Len(ordered) |->
                        to_new_str(store, ordered[n]) \o << "\n" >>])

\* NewEmbed.get_current_mode / NewEmbed.get_previous_mode
get_mode(use_list) ==
    IF \E n \in 1..Len(use_list) : use_list[n].cls = "RenameEntry"
    THEN << "i", "n", "i" >>
    ELSE << "f", "i", "x" >>

NEW_HEADER ==
    << "*", "*", "_", "_", "N", "e", "w", " ", "E", "n", "t", "r", "y",
       "_", "_", "*", "*", "\n", BACKTICK, BACKTICK, BACKTICK >>
NEW_MIDDLE ==
    << BACKTICK, BACKTICK, BACKTICK, "\n", "\n", "*", "*", "_", "_", "O", "l", "d", "e",
       "r", " ", "E", "n", "t", "r", "y", "_", "_", "*", "*", "\n", BACKTICK,
       BACKTICK, BACKTICK >>
NEW_FOOTER == << BACKTICK, BACKTICK, BACKTICK >>

\* NewEmbed.build_embed (the static plainText field is left out)
NewEmbed_build_embed(store, current, previous) ==
    [description |->
        NEW_HEADER \o get_mode(current) \o << "\n" >>
        \o get_names(store, current)
        \o NEW_MIDDLE \o get_mode(previous) \o << "\n" >>
        \o get_names(store, previous) \o NEW_FOOTER,
     color |-> 16541188]

\* Blacklist.get_entry_from_current: position in current_update of the first
\* record whose username matches, 0 for None.
get_entry_from_current(store, current, username) ==
    LET hits == { n \in 1..Len(current) :
                    lower(username_of(store, current[n])) = lower(username) }
    IN  IF hits = {} THEN 0
        ELSE CHOOSE n \in hits : \A m \in hits : n <= m

\* Blacklist.get_entry_from_previous
get_entry_from_previous(store, previous, username) ==
    LET hits == { n \in 1..Len(previous) :
                    lower(username_of(store, previous[n])) = lower(username) }
    IN  IF hits = {} THEN 0
        ELSE CHOOSE n \in hits : \A m \in hits : n <= m

\* format_username looking in previous_update first.
format_username_previous_first(store, current, previous, username) ==
    IF get_entry_from_previous(store, previous, username) # 0
    THEN << "\n", "*" >> \o username \o << "*", "\n" >>
    ELSE IF get_entry_from_current(store, current, username) # 0
    THEN << "\n", "*", "*" >> \o username \o << "*", "*", "\n" >>
    ELSE username

\* Blacklist.format_username
format_username(store, current, previous, username) ==
    IF get_entry_from_current(store, current, username) # 0
    THEN << "\n", "*", "*" >> \o username \o << "*", "*", "\n" >>
    ELSE IF get_entry_from_previous(store, previous, username) # 0
    THEN << "\n", "*" >> \o username \o << "*", "\n" >>
    ELSE username

\* NormalEmbed.get_entries; an empty category or letter_range stands for
\* None.  Usernames are not empty: both scripts store only usernames that
\* passed "if username and category".
get_entries(store, category, letter_range) ==
    LET entries == sorted(store,
                     [n \in 1..Len(store) |->
                         codes(lower(store[n].username))])
        of_category == IF category # << >>
                       THEN SelectSeq(entries, LAMBDA x : x.category = category)
                       ELSE entries
    IN  IF letter_range # << >>
        THEN SelectSeq(of_category,
                 LAMBDA x : in_list(upper(x.username)[1], letter_range))
        ELSE of_category

\* NormalEmbed.get_description
get_description(store, current, previous, category, letter_range) ==
    LET entries == get_entries(store, category, letter_range)
    IN  join(<< "\n" >>,
             [n \in 1..Len(entries) |->
                 format_username(store, current, previous,
                                 entries[n].username)])

OTHER_PREAMBLE ==
    << "*", "R", "e", "a", "s", "o", "n", "s", " ", "o", "t", "h", "e",
       "r", " ", "t", "h", "a", "n", " ", "t", "h", "e", " ", "o", "n",
       "e", "s", " ", "a", "b", "o", "v", "e", ".", " ", "\n", "A", "c",
       "t", "i", "v", "i", "t", "i", "e", "s", " ", "s", "u", "c", "h",
       " ", "a", "s", ":", " ", "G", "r", "o", "s", "s", " ", "m", "i",
       "s", "c", "o", "n", "d", "u", "c", "t", ",", " ", "h", "o", "r",
       "r", "e", "n", "d", "o", "u", "s", " ", "t", "r", "a", "d", "e",
       " ", "e", "t", "i", "q", "u", "e", "t", "t", "e", ",", " ", "o",
       "t", "h", "e", "r", " ", "T", "o", "S", " ", "v", "i", "o", "l",
       "a", "t", "i", "o", "n", "s", ",", " ", "e", "t", "c", ".", ".",
       " ", "\n", "M", "o", "s", "t", " ", "o", "f", " ", "t", "h", "e",
       "m", " ", "w", "i", "l", "l", " ", "s", "t", "i", "l", "l", " ",
       "h", "a", "v", "e", " ", "s", "o", "m", "e", "t", "h", "i", "n",
       "g", " ", "t", "o", " ", "d", "o", " ", "w", "i", "t", "h", " ",
       "t", "r", "a", "d", "e", ".", "*", "\n", "\n" >>

UNKNOWN_PREAMBLE ==
    << "*", "T", "h", "e", " ", "r", "e", "a", "s", "o", "n", " ", "b",
       "e", "h", "i", "n", "d", " ", "b", "l", "a", "c", "k", "l", "i",
       "s", "t", "i", "n", "g", " ", "t", "h", "e", "s", "e", " ", "n",
       "a", "m", "e", "s", " ", "h", "a", "s", " ", "b", "e", "e", "n",
       " ", "l", "o", "s", "t", " ", "w", "i", "t", "h", " ", "t", "i",
       "m", "e", ".", "\n", "D", "e", "s", "p", "i", "t", "e", " ", "t",
       "h", "i", "s", ",", " ", "w", "e", " ", "r", "e", "c", "o", "m",
       "m", "e", "n", "d", " ", "n", "o", "t", " ", "t", "o", " ", "t",
       "r", "a", "d", "e", " ", "w", "i", "t", "h", " ", "t", "h", "e",
       "m", ".", "*", "\n", "\n" >>

\* The embed classes instantiated by __main__, in its order.
EMBEDS ==
    << [cls |-> "NewEmbed", filename |-> "new.txt"],
       [cls |-> "ScamEmbed", filename |-> "scam.txt", category |-> Scam,
        letter_range |-> << >>, title |-> "__Scam__", color |-> 14748684,
        footer |-> ""],
       [cls |-> "RMTALEmbed", filename |-> "rmta.txt", category |-> RMT,
        letter_range |-> range_char("A", "L"),
        title |-> "__RMT__  *(Real Money Trading)*  (A-L)",
        color |-> 7451177, footer |-> "page 1/2"],
       [cls |-> "RMTMZEmbed", filename |-> "rmtb.txt", category |-> RMT,
        letter_range |-> range_char("M", "Z"),
        title |-> "__RMT__  *(Real Money Trading)*  (M-Z)",
        color |-> 7451177, footer |-> "page 2/2"],
       [cls |-> "ExchangeEmbed", filename |-> "exchange.txt",
        category |-> GW2Exchange, letter_range |-> << >>,
        title |-> "__GW2 Exchange__", color |-> 12297507, footer |-> ""],
       [cls |-> "OtherEmbed", filename |-> "other.txt", category |-> Other,
        letter_range |-> << >>, title |-> "__Other__", color |-> 8604544,
        footer |-> ""],
       [cls |-> "UnknownEmbed", filename |-> "unknown.txt",
        category |-> Unknown, letter_range |-> << >>,
        title |-> "__Unknown__", color |-> 8604544, footer |-> ""] >>

\* NormalEmbed.build_embed with the get_description overrides of OtherEmbed
\* and UnknownEmbed; footer "" stands for no footer key.
NormalEmbed_build_embed(store, current, previous, embed) ==
    LET res == get_description(store, current, previous, embed.category,
                               embed.letter_range)
    IN  [title |-> embed.title,
         description |->
            IF embed.cls = "OtherEmbed" THEN OTHER_PREAMBLE \o res
            ELSE IF embed.cls = "UnknownEmbed" THEN UNKNOWN_PREAMBLE \o res
            ELSE res,
         color |-> embed.color,
         footer |-> embed.footer]

\* Embed.save_embed: the file written.
save_embed(store, current, previous, embed) ==
    [filename |-> embed.filename,
     embed |-> IF embed.cls = "NewEmbed"
               THEN NewEmbed_build_embed(store, current, previous)
               ELSE NormalEmbed_build_embed(store, current, previous, embed)]

-----------------------------------------------------------------------------
(* State *)

VARIABLES
    persisted,        \* contents of blacklist/blacklist.json
    data,             \* what json.load returned in this run
    full_blacklist,   \* Blacklist.full_blacklist
    current_update,   \* Blacklist.current_update
    previous_update,  \* Blacklist.previous_update
    target,           \* epoch marker of the line loop
    consumed,         \* lines of blacklist.txt read so far, as read
    saves,            \* number of times blacklist.json was written in this run
    embeds,           \* embed files written so far
    stdout,           \* messages printed
    raised,           \* the uncaught exception, "" when none
    pc,               \* "start", "lines", "embeds", "import", "done", "aborted"
    program,          \* the script run: "build_blacklist" or "populate_blacklist"
    imported          \* lines of blacklist_from_sheets.txt read so far

vars == << persisted, data, full_blacklist, current_update, previous_update,
           target, consumed, saves, embeds, stdout, raised, pc, program,
           imported >>

\* Lines of the changelog the constructor reads in this run.
LineLimit ==
    IF program = "populate_blacklist" THEN MaxImportChangelog ELSE MaxLines

Init ==
    /\ persisted \in StoredCollections
    /\ data = << >>
    /\ full_blacklist = << >>
    /\ current_update = << >>
    /\ previous_update = << >>
    /\ target = "current"
    /\ consumed = << >>
    /\ saves = 0
    /\ embeds = << >>
    /\ stdout = << >>
    /\ raised = ""
    /\ pc = "start"
    /\ program = "build_blacklist"
    /\ imported = << >>

\* Blacklist.__init__ up to the opening of the changelog.
Load ==
    /\ pc = "start"
    /\ data' = persisted
    /\ full_blacklist' = persisted
    /\ current_update' = << >>
    /\ previous_update' = << >>
    /\ target' = "current"
    /\ pc' = "lines"
    /\ UNCHANGED << persisted, consumed, saves, embeds, stdout, raised >>
    /\ UNCHANGED << program, imported >>

\* An uncaught exception ends the process.
Abort(exception) ==
    /\ raised' = exception
    /\ pc' = "aborted"

\* Loop iteration for a line that is empty after strip().
BlankLine(raw) ==
    /\ pc = "lines"
    /\ Len(consumed) < LineLimit
    /\ strip(raw) = << >>
    /\ consumed' = Append(consumed, raw)
    /\ UNCHANGED << persisted, data, full_blacklist, current_update,
                    previous_update, target, saves, embeds, stdout, raised, pc >>
    /\ UNCHANGED << program, imported >>

\* Loop iteration for a line whose first character is "#".
CommentLine(raw) ==
    LET line == strip(raw)
    IN  /\ pc = "lines"
        /\ Len(consumed) < LineLimit
        /\ line # << >>
        /\ line[1] = "#"
        /\ consumed' = Append(consumed, raw)
        /\ target' = comment_target(line, target)
        /\ UNCHANGED << persisted, data, full_blacklist, current_update,
                        previous_update, saves, embeds, stdout, raised, pc >>
        /\ UNCHANGED << program, imported >>

\* Loop iteration for a line containing " -> ".
RenameLine(raw) ==
    LET line == strip(raw)
        parts == split(line, SEPARATOR)
    IN  /\ pc = "lines"
        /\ Len(consumed) < LineLimit
        /\ line # << >>
        /\ line[1] # "#"
        /\ contains(line, SEPARATOR)
        /\ consumed' = Append(consumed, raw)
        /\ IF Len(parts) # 2
           THEN \* old, new = line.split(" -> ") cannot unpack
                /\ Abort("ValueError: too many values to unpack (expected 2)")
                /\ UNCHANGED << full_blacklist, current_update,
                                previous_update, stdout >>
           ELSE LET old == parts[1]
                    new == parts[2]
                    res == update_username(full_blacklist, old, new)
                IN  IF res.raised
                    THEN /\ stdout' = Append(stdout,
                               [text |-> "You asked us to update usernames",
                                old |-> old, new |-> new])
                         /\ Abort("RuntimeError: Unable to process username change.")
                         /\ UNCHANGED << full_blacklist, current_update,
                                         previous_update >>
                    ELSE LET new_entry ==
                                 RenameEntry(res.store[res.entry].username,
                                             res.store[res.entry].category,
                                             old)
                             upd == add_to_updates(current_update,
                                        previous_update, new_entry, target)
                         IN  /\ full_blacklist' = res.store
                             /\ current_update' = upd.current_update
                             /\ previous_update' = upd.previous_update
                             /\ UNCHANGED << stdout, raised, pc >>
        /\ UNCHANGED << persisted, data, target, saves, embeds >>
        /\ UNCHANGED << program, imported >>

\* Loop iteration for any other line: username, category = rsplit(" ", 1).
AddLine(raw) ==
    LET line == strip(raw)
        parts == rsplit(line, " ")
    IN  /\ pc = "lines"
        /\ Len(consumed) < LineLimit
        /\ line # << >>
        /\ line[1] # "#"
        /\ ~ contains(line, SEPARATOR)
        /\ consumed' = Append(consumed, raw)
        /\ IF Len(parts) # 2
           THEN \* username, category = line.rsplit(" ", 1) cannot unpack
                /\ Abort("ValueError: not enough values to unpack (expected 2, got 1)")
                /\ UNCHANGED << full_blacklist, current_update,
                                previous_update, stdout >>
           ELSE LET username == parts[1]
                    category == parts[2]
                IN  IF username # << >> /\ category # << >>
                    THEN LET res == get_or_append(full_blacklist, username,
                                                  category)
                             upd == add_to_updates(current_update,
                                        previous_update,
                                        StoreObject(res.entry), target)
                         IN  /\ full_blacklist' = res.store
                             /\ current_update' = upd.current_update
                             /\ previous_update' = upd.previous_update
                             /\ UNCHANGED << stdout, raised, pc >>
                    ELSE /\ stdout' = Append(stdout,
                               [text |-> "Unable to process non-blank line in input",
                                line |-> line])
                         /\ Abort("RuntimeError: Unable to process input line.")
                         /\ UNCHANGED << full_blacklist, current_update,
                                         previous_update >>
        /\ UNCHANGED << persisted, data, target, saves, embeds >>
        /\ UNCHANGED << program, imported >>

\* End of the changelog, saving only when a directive was applied.
EndOfInput_save_if_changed ==
    /\ pc = "lines"
    /\ persisted' = IF current_update = << >> /\ previous_update = << >>
                    THEN persisted
                    ELSE save_blacklist(full_blacklist)
    /\ saves' = IF current_update = << >> /\ previous_update = << >>
                THEN saves
                ELSE saves + 1
    /\ pc' = IF program = "populate_blacklist" THEN "import" ELSE "embeds"
    /\ UNCHANGED << data, full_blacklist, current_update, previous_update,
                    target, consumed, embeds, stdout, raised >>
    /\ UNCHANGED << program, imported >>

\* End of the changelog: the loop exits and __init__ calls save_blacklist.
EndOfInput ==
    /\ pc = "lines"
    /\ persisted' = save_blacklist(full_blacklist)
    /\ saves' = saves + 1
    /\ pc' = IF program = "populate_blacklist" THEN "import" ELSE "embeds"
    /\ UNCHANGED << data, full_blacklist, current_update, previous_update,
                    target, consumed, embeds, stdout, raised >>
    /\ UNCHANGED << program, imported >>

\* __main__ after Blacklist(): the seven save_embed calls, in order.
SaveEmbeds ==
    /\ pc = "embeds"
    /\ embeds' = [n \in 1..Len(EMBEDS) |->
                     save_embed(full_blacklist, current_update,
                                previous_update, EMBEDS[n])]
    /\ pc' = "done"
    /\ UNCHANGED << persisted, data, full_blacklist, current_update,
                    previous_update, target, consumed, saves, stdout, raised >>
    /\ UNCHANGED << program, imported >>

Next ==
    \/ Load
    \/ \E raw \in InputLines : BlankLine(raw)
    \/ \E raw \in InputLines : CommentLine(raw)
    \/ \E raw \in InputLines : RenameLine(raw)
    \/ \E raw \in InputLines : AddLine(raw)
    \/ EndOfInput
    \/ SaveEmbeds

Spec == Init /\ [][Next]_vars

-----------------------------------------------------------------------------
(* populate_blacklist.py: Blacklist() and then the import loop *)

Import_BOBRMT == << "B", "O", "B", "\t", "R", "M", "T", "\n" >>
Import_CarolOther == << "C", "a", "r", "o", "l", "\t", "O", "t", "h", "e", "r" >>
Import_Blank == << "\n" >>
Import_GhostNoCategory == << "G", "h", "o", "s", "t", "\t", "\n" >>

\* The lines blacklist_from_sheets.txt may contain.
ImportLines ==
    { Import_BOBRMT, Import_CarolOther, Import_Blank, Import_GhostNoCategory }

InitImport ==
    /\ persisted \in StoredCollections
    /\ data = << >>
    /\ full_blacklist = << >>
    /\ current_update = << >>
    /\ previous_update = << >>
    /\ target = "current"
    /\ consumed = << >>
    /\ saves = 0
    /\ embeds = << >>
    /\ stdout = << >>
    /\ raised = ""
    /\ pc = "start"
    /\ program = "populate_blacklist"
    /\ imported = << >>

\* Import loop iteration for a line that is empty after strip().
ImportBlankLine(raw) ==
    /\ pc = "import"
    /\ Len(imported) < MaxImportLines
    /\ strip(raw) = << >>
    /\ imported' = Append(imported, raw)
    /\ UNCHANGED << persisted, data, full_blacklist, current_update,
                    previous_update, target, consumed, saves, embeds, stdout,
                    raised, pc, program >>

\* Import loop iteration for any other line:
\* username, category = line.rsplit("\t", 1).
ImportLine(raw) ==
    LET line == strip(raw)
        parts == rsplit(line, "\t")
    IN  /\ pc = "import"
        /\ Len(imported) < MaxImportLines
        /\ line # << >>
        /\ imported' = Append(imported, raw)
        /\ IF Len(parts) # 2
           THEN \* the unpacking of rsplit's result fails
                /\ Abort("ValueError: not enough values to unpack (expected 2, got 1)")
                /\ UNCHANGED << full_blacklist, stdout >>
           ELSE IF parts[1] # << >> /\ parts[2] # << >>
           THEN /\ full_blacklist'
                     = get_or_append(full_blacklist, parts[1], parts[2]).store
                /\ UNCHANGED << stdout, raised, pc >>
           ELSE /\ stdout' = Append(stdout,
                      [text |-> "Unable to process non-blank line in input",
                       line |-> line])
                /\ Abort("RuntimeError: Unable to process input line.")
                /\ UNCHANGED full_blacklist
        /\ UNCHANGED << persisted, data, current_update, previous_update,
                        target, consumed, saves, embeds, program >>

\* End of the import file: blacklist.save_blacklist().
ImportEnd ==
    /\ pc = "import"
    /\ persisted' = save_blacklist(full_blacklist)
    /\ saves' = saves + 1
    /\ pc' = "done"
    /\ UNCHANGED << data, full_blacklist, current_update, previous_update,
                    target, consumed, embeds, stdout, raised, program,
                    imported >>

NextImport ==
    \/ Load
    \/ \E raw \in InputLines : BlankLine(raw)
    \/ \E raw \in InputLines : CommentLine(raw)
    \/ \E raw \in InputLines : RenameLine(raw)
    \/ \E raw \in InputLines : AddLine(raw)
    \/ EndOfInput
    \/ \E raw \in ImportLines : ImportBlankLine(raw)
    \/ \E raw \in ImportLines : ImportLine(raw)
    \/ ImportEnd

SpecImport == InitImport /\ [][NextImport]_vars

-----------------------------------------------------------------------------
(* The view builder on its own: __main__ from the return of Blacklist() *)

lou == << "l", "o", "u" >>
Max == << "M", "a", "x" >>
zanzibar == << "z", "a", "n", "z", "i", "b", "a", "r" >>
NineLives == << "9", "l", "i", "v", "e", "s" >>
Foo == << "F", "o", "o" >>

\* Stores the constructor may return.
ViewStores ==
    { << [username |-> zanzibar, category |-> RMT],
         [username |-> Bob, category |-> Other],
         [username |-> Carol, category |-> Scam] >>,
      << [username |-> Max, category |-> RMT],
         [username |-> lou, category |-> RMT],
         [username |-> NineLives, category |-> RMT],
         [username |-> Bob, category |-> GW2Exchange] >>,
      << [username |-> Carol, category |-> Unknown],
         [username |-> Bob, category |-> Foo],
         [username |-> lou, category |-> Scam] >> }

\* Update records over a store: its objects, and rename records made from
\* its entries.
ViewRecords(store) ==
    { StoreObject(n) : n \in 1..Len(store) }
    \cup { RenameEntry(store[n].username, store[n].category, Ghost) :
             n \in 1..Len(store) }

SeqsUpTo(S, n) == UNION { [1..k -> S] : k \in 0..n }

InitView ==
    /\ full_blacklist \in ViewStores
    /\ current_update \in SeqsUpTo(ViewRecords(full_blacklist), MaxViewRecords)
    /\ previous_update
          \in SeqsUpTo(ViewRecords(full_blacklist), MaxViewPrevious)
    /\ persisted = save_blacklist(full_blacklist)
    /\ data = full_blacklist
    /\ target = "current"
    /\ consumed = << >>
    /\ saves = 1
    /\ embeds = << >>
    /\ stdout = << >>
    /\ raised = ""
    /\ pc = "embeds"
    /\ program = "build_blacklist"
    /\ imported = << >>

NextView == SaveEmbeds

SpecView == InitView /\ [][NextView]_vars

-----------------------------------------------------------------------------
(* Vocabulary of the properties *)

Last(seq) == seq[Len(seq)]

\* Some entry of the store has this username, compared case-insensitively.
Matches(store, username) ==
    \E n \in 1..Len(store) : lower(store[n].username) = lower(username)

NoCaseDuplicates(store) ==
    \A m, n \in 1..Len(store) :
        m # n => lower(store[m].username) # lower(store[n].username)

\* Classification of a stripped changelog line.
IsDirective(line) == line # << >> /\ line[1] # "#"
IsRenameDirective(line) ==
    IsDirective(line) /\ contains(line, SEPARATOR)
    /\ Len(split(line, SEPARATOR)) = 2
IsAddDirective(line) ==
    IsDirective(line) /\ ~ contains(line, SEPARATOR)
    /\ \E n \in 1..Len(line) : line[n] = " "
IsSingleToken(line) ==
    IsDirective(line) /\ ~ contains(line, SEPARATOR)
    /\ \A n \in 1..Len(line) : line[n] # " "

Directives(lines) ==
    { n \in 1..Len(lines) : IsDirective(strip(lines[n])) }

\* What an update record shows now: its kind, username and category (and
\* old_username for a rename record).
View(store, rec) ==
    IF rec.cls = "RenameEntry"
    THEN [kind |-> "rename", username |-> username_of(store, rec),
          category |-> category_of(store, rec),
          old_username |-> rec.old_username]
    ELSE [kind |-> "plain", username |-> username_of(store, rec),
          category |-> category_of(store, rec)]

Views(store, list) == [n \in 1..Len(list) |-> View(store, list[n])]

Plain(username, category) ==
    [kind |-> "plain", username |-> username, category |-> category]
Renamed(username, category, old_username) ==
    [kind |-> "rename", username |-> username, category |-> category,
     old_username |-> old_username]

Entry(username, category) == [username |-> username, category |-> category]

-----------------------------------------------------------------------------
(* Properties *)

\* C1 (store uniqueness): when the loaded collection has no two entries
\* with case-insensitively equal usernames, neither has the store after any
\* prefix of the changelog, the state at an abort included.
C1_StoreUniqueness ==
    (pc # "start" /\ NoCaseDuplicates(data)) => NoCaseDuplicates(full_blacklist)

\* An add and a rename have both acted on a duplicate-free loaded store.
C1_Witness ==
    /\ pc = "aborted"
    /\ NoCaseDuplicates(data)
    /\ Len(full_blacklist) > Len(data)
    /\ \E n \in 1..Len(data) : full_blacklist[n].username # data[n].username

\* C2 (all-or-nothing run): blacklist.json is written only once every line
\* has been processed, and then holds the store with every directive
\* applied; an aborted run leaves it exactly as it was loaded.
C2_AllOrNothing ==
    /\ pc \in {"start", "lines", "aborted"} => saves = 0
    /\ pc \in {"lines", "aborted"} => persisted = data
    /\ pc = "aborted" => raised # ""
    /\ pc \in {"embeds", "done"} =>
          /\ saves = 1
          /\ raised = ""
          /\ Len(persisted) = Len(full_blacklist)
          /\ \A n \in 1..Len(persisted) :
                persisted[n] = Entry(full_blacklist[n].username,
                                     full_blacklist[n].category)
          /\ Len(current_update) + Len(previous_update)
                = Cardinality(Directives(consumed))

\* A run aborted after directives had already changed the store in memory.
C2_Witness ==
    /\ pc = "aborted"
    /\ full_blacklist # data
    /\ Len(current_update) + Len(previous_update) > 0

ScenarioLines ==
    << Line_BobScam, Line_PreviousUpdates, Line_CarolRMT, Line_BobToRobert >>

\* C3 (scenario): from a store holding Bob/Scam, the lines "Bob Scam",
\* "# Previous updates", "Carol RMT", "Bob -> Robert" end with Robert/Scam
\* and Carol/RMT in the store, current_update = [plain Bob/Scam] and
\* previous_update = [plain Carol/RMT, rename Robert/Scam from Bob].
C3_Scenario ==
    (/\ pc \in {"embeds", "done"}
     /\ data = << Entry(Bob, Scam) >>
     /\ consumed = ScenarioLines)
    => /\ full_blacklist = << Entry(Robert, Scam), Entry(Carol, RMT) >>
       /\ Views(full_blacklist, current_update) = << Plain(Bob, Scam) >>
       /\ Views(full_blacklist, previous_update)
             = << Plain(Carol, RMT), Renamed(Robert, Scam, Bob) >>

\* C4 (update records are value copies): a record that is in an epoch list
\* shows the same username and category after every later step.
C4_ValueCopies ==
    [][ /\ \A n \in 1..Len(current_update) :
              View(full_blacklist, current_update[n])
                = View(full_blacklist', current_update'[n])
        /\ \A n \in 1..Len(previous_update) :
              View(full_blacklist, previous_update[n])
                = View(full_blacklist', previous_update'[n]) ]_vars

\* The old and new usernames of a rename line, the username and category of
\* an add/recategorize line, read off the stripped line.
OldOf(line) == SubSeq(line, 1, find(line, SEPARATOR) - 1)
NewOf(line) == SubSeq(line, find(line, SEPARATOR) + Len(SEPARATOR), Len(line))
LastSpace(line) ==
    CHOOSE k \in 1..Len(line) :
        line[k] = " " /\ \A m \in (k + 1)..Len(line) : line[m] # " "
UsernameOf(line) == SubSeq(line, 1, LastSpace(line) - 1)
CategoryOf(line) == SubSeq(line, LastSpace(line) + 1, Len(line))

\* This step read one more line of the changelog.
ReadsLine == pc = "lines" /\ Len(consumed') = Len(consumed) + 1

\* C5 (unknown rename fails without mutation): a rename line old -> new
\* raises the "username change" error exactly when neither old nor new
\* matches a store entry; the store and both epoch lists are then unchanged
\* and the message printed carries both old and new.
C5_UnknownRenameFails ==
    [][ (ReadsLine /\ IsRenameDirective(strip(Last(consumed')))) =>
          LET old == OldOf(strip(Last(consumed')))
              new == NewOf(strip(Last(consumed')))
              unknown == ~ Matches(full_blacklist, old)
                         /\ ~ Matches(full_blacklist, new)
          IN  /\ (pc' = "aborted") <=> unknown
              /\ (raised' = "RuntimeError: Unable to process username change.")
                    <=> unknown
              /\ unknown =>
                    /\ full_blacklist' = full_blacklist
                    /\ current_update' = current_update
                    /\ previous_update' = previous_update
                    /\ Len(stdout') = Len(stdout) + 1
                    /\ Last(stdout').old = old
                    /\ Last(stdout').new = new ]_vars

\* "Ghost -> Phantom" failed on a store that already held entries and
\* update records.
C5_Witness ==
    /\ pc = "aborted"
    /\ raised = "RuntimeError: Unable to process username change."
    /\ Last(consumed) = Line_GhostToPhantom
    /\ Last(stdout).old = Ghost
    /\ Last(stdout).new = Phantom
    /\ full_blacklist # << >>
    /\ Len(current_update) + Len(previous_update) > 0

\* C6 (idempotent rename): when a rename line has just succeeded, the same
\* rename line applied again succeeds and leaves the store as it is.
C6_IdempotentRename ==
    [][ (/\ ReadsLine
         /\ consumed # << >>
         /\ IsRenameDirective(strip(Last(consumed)))
         /\ strip(Last(consumed')) = strip(Last(consumed)))
        => /\ pc' = "lines"
           /\ raised' = ""
           /\ full_blacklist' = full_blacklist ]_vars

\* The same rename line was applied twice and its first application renamed
\* an entry.
C6_Witness ==
    /\ pc = "lines"
    /\ Len(consumed) = 2
    /\ consumed[1] = consumed[2]
    /\ IsRenameDirective(strip(consumed[1]))
    /\ full_blacklist # data

AliceExample ==
    get_or_append(get_or_append(<< >>, Alice, Scam).store, ALICE, RMT).store
        = << Entry(Alice, RMT) >>

\* C7 (case-insensitive upsert): an add/recategorize line for u, c on a
\* store with an entry matching u adds no entry, keeps that entry's stored
\* username and sets its category to c, all other entries unchanged; with no
\* matching entry it appends exactly the entry {u, c}.  In particular
\* upsert("Alice","Scam") then upsert("ALICE","RMT") leaves one entry,
\* Alice/RMT.
C7_CaseInsensitiveUpsert ==
    [][ /\ AliceExample
        /\ (ReadsLine /\ IsAddDirective(strip(Last(consumed')))) =>
              LET u == UsernameOf(strip(Last(consumed')))
                  c == CategoryOf(strip(Last(consumed')))
              IN  /\ pc' = "lines"
                  /\ IF Matches(full_blacklist, u)
                     THEN /\ Len(full_blacklist') = Len(full_blacklist)
                          /\ \E n \in 1..Len(full_blacklist) :
                                /\ lower(full_blacklist[n].username) = lower(u)
                                /\ full_blacklist'[n]
                                     = Entry(full_blacklist[n].username, c)
                                /\ \A m \in 1..Len(full_blacklist) :
                                      m # n =>
                                        full_blacklist'[m] = full_blacklist[m]
                     ELSE full_blacklist'
                            = Append(full_blacklist, Entry(u, c)) ]_vars

\* " BOB RMT" recategorized the entry stored as "Bob", which kept its casing.
C7_Witness ==
    /\ pc = "lines"
    /\ consumed # << >>
    /\ Last(consumed) = Line_BOBRMT
    /\ data = << >>
    /\ full_blacklist = << Entry(Bob, RMT) >>

\* Some line read so far is a comment whose text contains "previous",
\* whatever the case of its letters.
SwitchSeen(lines) ==
    \E n \in 1..Len(lines) :
        /\ strip(lines[n]) # << >>
        /\ strip(lines[n])[1] = "#"
        /\ contains(lower(strip(lines[n])), PREVIOUS)

\* C8 (epoch marker is one-way): the marker is "previous" exactly when a
\* comment line containing "previous" has been read; once it is, it stays so,
\* nothing more is recorded in current_update and every applied directive is
\* recorded in previous_update; blank and comment lines change neither the
\* store nor the epoch lists.
C8_MarkerOneWay ==
    /\ [](target = "previous" <=> SwitchSeen(consumed))
    /\ [][ /\ target = "previous" =>
                /\ target' = "previous"
                /\ current_update' = current_update
           /\ (/\ target = "previous"
               /\ ReadsLine
               /\ pc' = "lines"
               /\ IsDirective(strip(Last(consumed'))))
              => Len(previous_update') = Len(previous_update) + 1
           /\ (ReadsLine /\ ~ IsDirective(strip(Last(consumed'))))
              => /\ full_blacklist' = full_blacklist
                 /\ current_update' = current_update
                 /\ previous_update' = previous_update
                 /\ pc' = "lines" ]_vars

\* After the switch, a comment without "previous" was read and then a
\* directive was recorded in previous_update.
C8_Witness ==
    /\ target = "previous"
    /\ current_update # << >>
    /\ previous_update # << >>
    /\ \E m, n \in 1..Len(consumed) :
          /\ m < n
          /\ n < Len(consumed)
          /\ consumed[m] = Line_PreviousUpdates
          /\ consumed[n] = Line_Comment

\* C9 (epoch lists are append-only, in changelog order): an applied
\* directive appends one record at the end of the list named by the marker
\* in effect and leaves the other list as it is; no other step changes either
\* list.
C9_AppendOnly ==
    [][ IF ReadsLine /\ pc' = "lines" /\ IsDirective(strip(Last(consumed')))
        THEN LET grown == IF target = "previous" THEN previous_update
                          ELSE current_update
                 grown2 == IF target = "previous" THEN previous_update'
                           ELSE current_update'
                 other == IF target = "previous" THEN current_update
                          ELSE previous_update
                 other2 == IF target = "previous" THEN current_update'
                           ELSE previous_update'
             IN  /\ other2 = other
                 /\ Len(grown2) = Len(grown) + 1
                 /\ SubSeq(grown2, 1, Len(grown)) = grown
                 /\ (Last(grown2).cls = "RenameEntry")
                       <=> contains(strip(Last(consumed')), SEPARATOR)
        ELSE /\ current_update' = current_update
             /\ previous_update' = previous_update ]_vars

\* Both lists have grown, current_update by records of both kinds.
C9_Witness ==
    /\ Len(current_update) >= 2
    /\ Len(previous_update) >= 1
    /\ \E m, n \in 1..Len(current_update) :
          current_update[m].cls # current_update[n].cls

\* C10 (malformed line is reported): a line that is a single token, with no
\* " -> " and no space, is the last line read, the run is aborted there and
\* the message printed identifies that line.
C10_MalformedLineReported ==
    \A n \in 1..Len(consumed) :
        IsSingleToken(strip(consumed[n])) =>
            /\ n = Len(consumed)
            /\ pc = "aborted"
            /\ \E k \in 1..Len(stdout) :
                  /\ "line" \in DOMAIN stdout[k]
                  /\ stdout[k].line \in { consumed[n], strip(consumed[n]) }

-----------------------------------------------------------------------------
(* Properties of the view builder *)

\* Some record of the list shows this username, compared case-insensitively.
InList(store, list, username) ==
    \E n \in 1..Len(list) :
        lower(View(store, list[n]).username) = lower(username)

Bold(username) == << "\n", "*", "*" >> \o username \o << "*", "*", "\n" >>
Italic(username) == << "\n", "*" >> \o username \o << "*", "\n" >>

\* The emphasis a username is due.
Emphasis(store, current, previous, username) ==
    IF InList(store, current, username) THEN Bold(username)
    ELSE IF InList(store, previous, username) THEN Italic(username)
    ELSE username

ProbeUsernames == { Bob, BOB, Carol, lou, Max, zanzibar, NineLives, Ghost }

\* C11 (emphasis exclusivity): the emphasis helper returns the username in
\* bold when a record of current_update matches it (also when one of
\* previous_update does too), in italic when only previous_update has a
\* match, and bare when neither has.
C11_EmphasisExclusive ==
    \A u \in ProbeUsernames :
        format_username(full_blacklist, current_update, previous_update, u)
            = Emphasis(full_blacklist, current_update, previous_update, u)

\* The embeds were written for a store with a username matched in both
\* epoch lists and one matched in neither.
C11_Witness ==
    /\ pc = "done"
    /\ \E u \in ProbeUsernames :
          /\ InList(full_blacklist, current_update, u)
          /\ InList(full_blacklist, previous_update, u)
          /\ Matches(full_blacklist, u)
    /\ \E u \in ProbeUsernames :
          /\ ~ InList(full_blacklist, current_update, u)
          /\ ~ InList(full_blacklist, previous_update, u)
          /\ Matches(full_blacklist, u)

\* Orderings of the positions of a list.
Orderings(list) ==
    { f \in [1..Len(list) -> 1..Len(list)] :
        \A m, n \in 1..Len(list) : m # n => f[m] # f[n] }

\* Rank of a category in the "new entries" document.
Rank(category) ==
    CASE category = Scam -> 1
      [] category = RMT -> 2
      [] category = GW2Exchange -> 3
      [] category = Other -> 4
      [] OTHER -> 5

\* The lines of a block when the records are taken in the order f.
BlockLines(store, list, f) ==
    join(<< >>, [n \in 1..Len(list) |->
                    to_new_str(store, list[f[n]]) \o << "\n" >>])

\* Ranks do not decrease along f, and within a rank no plain record follows
\* a rename record.
RankOrdered(store, list, f) ==
    \A m, n \in 1..Len(list) :
        m < n =>
            LET a == View(store, list[f[m]])
                b == View(store, list[f[n]])
            IN  /\ Rank(a.category) <= Rank(b.category)
                /\ (Rank(a.category) = Rank(b.category) /\ a.kind = "rename")
                      => b.kind = "rename"

\* C12 (new-entries ordering): each block of the "new entries" document
\* holds one line per record of its epoch list, ordered by non-decreasing
\* rank Scam < RMT < GW2Exchange < Other < Unknown (unrecognized categories
\* with Unknown), the rename lines of a rank after its plain lines.
C12_NewEntriesOrdering ==
    pc = "done" =>
        \E f \in Orderings(current_update), g \in Orderings(previous_update) :
            /\ RankOrdered(full_blacklist, current_update, f)
            /\ RankOrdered(full_blacklist, previous_update, g)
            /\ embeds[1].filename = "new.txt"
            /\ embeds[1].embed.description
                 = NEW_HEADER \o get_mode(current_update) \o << "\n" >>
                   \o BlockLines(full_blacklist, current_update, f)
                   \o NEW_MIDDLE \o get_mode(previous_update) \o << "\n" >>
                   \o BlockLines(full_blacklist, previous_update, g)
                   \o NEW_FOOTER

\* The document was built from a current_update holding Other, RMT and Scam
\* records in that order, with a rename record ahead of the plain record of
\* its category.
C12_Witness ==
    /\ pc = "done"
    /\ Len(current_update) = 3
    /\ current_update[1] = RenameEntry(Bob, Other, Ghost)
    /\ current_update[2] \in { StoreObject(n) : n \in 1..Len(full_blacklist) }
    /\ View(full_blacklist, current_update[2]).category = Other
    /\ View(full_blacklist, current_update[3]).category = Scam

\* Store entries of category RMT whose first letter is among the first..last
\* letters of the alphabet, in either case.
RMTWithLetter(store, first, last) ==
    { n \in 1..Len(store) :
        /\ store[n].category = RMT
        /\ \E k \in first..last :
              store[n].username[1] \in { UPPERCASE[k], LOWERCASE[k] } }

\* The description lists exactly the entries at the positions in S.
ListsExactly(description, S) ==
    \E f \in [1..Cardinality(S) -> S] :
        /\ \A m, n \in 1..Cardinality(S) : m # n => f[m] # f[n]
        /\ description
             = join(<< "\n" >>,
                    [n \in 1..Cardinality(S) |->
                        Emphasis(full_blacklist, current_update,
                                 previous_update,
                                 full_blacklist[f[n]].username)])

\* "zanzibar" is listed in the M-Z document only.
ZanzibarExample ==
    /\ get_entries(<< Entry(zanzibar, RMT) >>, RMT, range_char("A", "L")) = << >>
    /\ get_entries(<< Entry(zanzibar, RMT) >>, RMT, range_char("M", "Z"))
         = << Entry(zanzibar, RMT) >>

\* C13 (letter-range split of RMT): the A-L document lists exactly the RMT
\* entries whose uppercased first character is in A..L and the M-Z document
\* exactly those whose first character is in M..Z, so no entry is in both;
\* "zanzibar" is in the M-Z document only.
C13_LetterRangeSplit ==
    /\ ZanzibarExample
    /\ pc = "done" =>
        /\ embeds[3].filename = "rmta.txt"
        /\ ListsExactly(embeds[3].embed.description,
                        RMTWithLetter(full_blacklist, 1, 12))
        /\ embeds[4].filename = "rmtb.txt"
        /\ ListsExactly(embeds[4].embed.description,
                        RMTWithLetter(full_blacklist, 13, 26))

\* The documents were built for a store whose RMT entries start with "M",
\* "l" and "9".
C13_Witness ==
    /\ pc = "done"
    /\ RMTWithLetter(full_blacklist, 1, 12) # {}
    /\ RMTWithLetter(full_blacklist, 13, 26) # {}
    /\ \E n \in 1..Len(full_blacklist) :
          /\ full_blacklist[n].category = RMT
          /\ n \notin RMTWithLetter(full_blacklist, 1, 26)

-----------------------------------------------------------------------------
(* Properties of the import run *)

\* This step read one more line of the import file.
ReadsImportLine == pc = "import" /\ Len(imported') = Len(imported) + 1

LastTab(line) ==
    CHOOSE k \in 1..Len(line) :
        line[k] = "\t" /\ \A m \in (k + 1)..Len(line) : line[m] # "\t"

\* The store after an upsert of username, category.
Upserted(store, username, category) ==
    IF Matches(store, username)
    THEN LET n == CHOOSE k \in 1..Len(store) :
                    /\ lower(store[k].username) = lower(username)
                    /\ \A m \in 1..(k - 1) :
                          lower(store[m].username) # lower(username)
         IN  [store EXCEPT ![n] = Entry(store[n].username, category)]
    ELSE Append(store, Entry(username, category))

\* C14 (import applies only add/recategorize semantics): in an import run
\* the store, once loaded, changes only by the upsert of the pair of an
\* import line, and both epoch lists stay empty, whatever the changelog
\* holds.
C14_ImportOnlyUpserts ==
    [][ (program = "populate_blacklist" /\ pc # "start") =>
          /\ current_update' = << >>
          /\ previous_update' = << >>
          /\ full_blacklist' # full_blacklist =>
                /\ ReadsImportLine
                /\ LET line == strip(Last(imported'))
                   IN  full_blacklist'
                         = Upserted(full_blacklist,
                                    SubSeq(line, 1, LastTab(line) - 1),
                                    SubSeq(line, LastTab(line) + 1, Len(line)))
      ]_vars

\* C15 (import abort happens before any save): when the import run aborts
\* on an import line without a tab-separated category, blacklist.json has
\* not been written in that run and holds what was loaded.
C15_ImportAbortBeforeSave ==
    (/\ program = "populate_blacklist"
     /\ pc = "aborted"
     /\ imported # << >>
     /\ ~ contains(strip(Last(imported)), << "\t" >>))
    => /\ saves = 0
       /\ persisted = data

-----------------------------------------------------------------------------
(* Properties of the run as a whole *)

\* C16 (run ordering and unconditional save): a changelog run that does not
\* abort saves the store exactly once, at the end of the changelog and
\* before any embed is written, also when no directive was read (the file
\* then holds the loaded collection in its order); an aborted run writes no
\* embed.
C16_SaveOnceBeforeEmbeds ==
    /\ [](/\ embeds # << >> => (saves = 1 /\ pc = "done")
          /\ pc = "done" => (saves = 1 /\ Len(embeds) = 7)
          /\ pc = "aborted" => embeds = << >>
          /\ (pc \in {"embeds", "done"} /\ Directives(consumed) = {})
                => persisted = data)
    /\ [][ saves' # saves =>
              /\ saves = 0
              /\ saves' = 1
              /\ pc = "lines"
              /\ embeds = << >>
              /\ embeds' = << >>
              /\ consumed' = consumed
              /\ full_blacklist' = full_blacklist
              /\ pc' = "embeds" ]_vars

\* A run over blank and comment lines only saved a non-empty collection and
\* wrote the embeds.
C16_Witness ==
    /\ pc = "done"
    /\ consumed # << >>
    /\ Directives(consumed) = {}
    /\ data # << >>
    /\ saves = 1

\* Positions of the store whose entry differs after the step.
Changed == { n \in 1..Len(full_blacklist) : full_blacklist'[n] # full_blacklist[n] }

\* C17 (entries are never deleted, directives touch one entry): after the
\* load no step removes or moves an entry; an add/recategorize line changes
\* at most the category of one entry or appends one entry, a rename line
\* changes at most the username of one entry and no category, and any other
\* step leaves the store as it is.
C17_OneEntryTouched ==
    [][ pc # "start" =>
          /\ Len(full_blacklist') >= Len(full_blacklist)
          /\ Cardinality(Changed) <= 1
          /\ IF ReadsLine /\ IsAddDirective(strip(Last(consumed')))
             THEN /\ Len(full_blacklist') <= Len(full_blacklist) + 1
                  /\ Len(full_blacklist') = Len(full_blacklist) + 1
                        => Changed = {}
                  /\ \A n \in Changed :
                        full_blacklist'[n].username = full_blacklist[n].username
             ELSE IF ReadsLine /\ IsRenameDirective(strip(Last(consumed')))
             THEN /\ Len(full_blacklist') = Len(full_blacklist)
                  /\ \A n \in Changed :
                        full_blacklist'[n].category = full_blacklist[n].category
             ELSE full_blacklist' = full_blacklist ]_vars

\* An entry was appended, another renamed and a third recategorized.
C17_Witness ==
    /\ pc = "lines"
    /\ Len(data) = 2
    /\ Len(full_blacklist) = 3
    /\ \E m, n \in 1..2 :
          /\ m # n
          /\ full_blacklist[m].username # data[m].username
          /\ full_blacklist[m].category = data[m].category
          /\ full_blacklist[n].category # data[n].category
          /\ full_blacklist[n].username = data[n].username

\* The record a rename line appends: a rename record naming old, at the end
\* of the list the marker names.
RenameRecorded(old) ==
    LET list == IF target = "previous" THEN previous_update' ELSE current_update'
    IN  /\ list # << >>
        /\ Last(list).cls = "RenameEntry"
        /\ Last(list).old_username = old

\* The rename of the entry matching old, as the claim describes it; strict
\* also requires that no entry matches old afterwards.
RenamePrecedence(strict) ==
    (ReadsLine /\ IsRenameDirective(strip(Last(consumed')))) =>
        LET old == OldOf(strip(Last(consumed')))
            new == NewOf(strip(Last(consumed')))
        IN  IF Matches(full_blacklist, new)
            THEN /\ pc' = "lines"
                 /\ full_blacklist' = full_blacklist
                 /\ RenameRecorded(old)
            ELSE Matches(full_blacklist, old) =>
                 /\ pc' = "lines"
                 /\ RenameRecorded(old)
                 /\ \E n \in 1..Len(full_blacklist) :
                       /\ lower(full_blacklist[n].username) = lower(old)
                       /\ full_blacklist'
                            = [full_blacklist EXCEPT
                                 ![n] = Entry(new, full_blacklist[n].category)]
                 /\ (strict \/ NoCaseDuplicates(full_blacklist))
                       => ~ Matches(full_blacklist', old)

Pairs(store) == { store[n] : n \in 1..Len(store) }

\* C19 (replay safety of a whole run): when a run has succeeded and saved,
\* running the same changelog on the saved collection succeeds too and
\* saves the same set of username/category pairs.
C19_ReplaySafe ==
    (pc \in {"embeds", "done"} /\ program = "build_blacklist") =>
        /\ ~ replay(persisted, consumed).raised
        /\ Pairs(replay(persisted, consumed).store) = Pairs(persisted)

\* The fold over the lines gives the store the step-by-step run has.
ReplayAgrees ==
    pc \in {"lines", "embeds", "done"} =>
        /\ ~ replay(data, consumed).raised
        /\ replay(data, consumed).store = full_blacklist

====
